---- MODULE Spec2Model ----
(***************************************************************************)
(* The persistent-storage reminder agent (5-persistent-storage-agent):     *)
(* main.py's session lifecycle and read-eval loop, utils.py's turn         *)
(* (call_agent_async / display_state) and the five tools of                *)
(* memory_agent/agent.py acting on the session state.                      *)
(*                                                                         *)
(* The agent runtime (Runner, DatabaseSessionService, the model) is an     *)
(* external library.  What the model takes from it is what the source      *)
(* relies on: run_async is handed a session id and loads the session from  *)
(* the session service for each turn; a tool's actions.state_delta is      *)
(* merged key by key into the stored and the loaded session state when     *)
(* the tool returns; an exception raised inside run_async (by the model    *)
(* call or by a tool) leaves it at the call site in call_agent_async.      *)
(* The model's choice of tool and arguments is nondeterministic.           *)
(***************************************************************************)
EXTENDS Integers, Sequences, FiniteSets, TLC

\* ------------------------------------------------------------------ bounds

MaxLen == 2     \* longest reminders list an add may produce
MaxLines == 3   \* input lines read over all process runs
MaxCalls == 2   \* tool calls the model may request in one turn

\* Reminder texts and user names the model collaborator may pass to a tool.
Items == {"buy milk", "call mom"}
Names == {"Afzal", "Bob"}

\* Input lines, as sequences of characters.
Lines ==
  { <<"e","x","i","t">>, <<"E","X","I","T">>, <<"Q","u","i","t">>,
    <<"b","y","e">>, <<" ","e","x","i","t">>, <<"b","y","e"," ">>,
    <<>>, <<"h","i">> }

\* ----------------------------------------------------------------- helpers

Range(s) == { s[i] : i \in 1..Len(s) }

\* dict.get(key, default)
Get(state, key, default) ==
  IF key \in DOMAIN state THEN state[key] ELSE default

\* state[key] = value
SetItem(state, key, value) ==
  [k \in (DOMAIN state) \cup {key} |-> IF k = key THEN value ELSE state[k]]

\* A state delta with no keys.
EmptyDelta == [k \in {} |-> 0]

\* The runtime's merge of a recorded state delta: every key of the delta
\* overwrites the state's value for that key.
Merge(state, delta) ==
  [k \in (DOMAIN state) \cup (DOMAIN delta) |->
     IF k \in DOMAIN delta THEN delta[k] ELSE state[k]]

\* Index of the first element equal to x (0 when there is none).
IndexOf(s, x) ==
  IF x \in Range(s) THEN CHOOSE i \in 1..Len(s) : s[i] = x /\ \A j \in 1..(i-1) : s[j] # x
  ELSE 0

\* list.remove(x) on a list that holds x: the first match is removed.
ListRemove(s, x) ==
  LET i == IndexOf(s, x) IN SubSeq(s, 1, i-1) \o SubSeq(s, i+1, Len(s))

\* str.lower(), character by character.
LowerChar(c) ==
  CASE c = "E" -> "e" [] c = "X" -> "x" [] c = "I" -> "i" [] c = "T" -> "t"
    [] c = "Q" -> "q" [] c = "U" -> "u" [] c = "B" -> "b" [] c = "Y" -> "y"
    [] OTHER -> c

Lower(line) == [i \in 1..Len(line) |-> LowerChar(line[i])]

Keywords == { <<"e","x","i","t">>, <<"q","u","i","t">>, <<"b","y","e">> }

\* ------------------------------------------------------------------- tools
\* A tool call's outcome: kind "returned" (the structured result mapping went
\* back to the agent) or "raised" (an exception left the tool), the session
\* state after the call's in-place effects, the state delta it recorded in
\* tool_context.actions, and the list a view returned.

initial_state == [user_name |-> "Afzal", reminders |-> <<>>]

Returned(state, delta, shown) ==
  [kind |-> "returned", error |-> "none", state |-> state,
   state_delta |-> delta, reminders |-> shown]

Raised(error, state) ==
  [kind |-> "raised", error |-> error, state |-> state,
   state_delta |-> EmptyDelta, reminders |-> <<>>]

\* Mutant of add_reminder: the append is made in place and no delta is
\* recorded.
add_reminder_no_delta(reminder, state) ==
  LET reminders == Append(Get(state, "reminders", <<>>), reminder) IN
  Returned(IF "reminders" \in DOMAIN state
             THEN SetItem(state, "reminders", reminders) ELSE state,
           EmptyDelta, <<>>)

\* Mutant of add_reminder: the delta is the appended list with the item
\* appended once more.
add_reminder_twice(reminder, state) ==
  LET reminders == Append(Get(state, "reminders", <<>>), reminder) IN
  Returned(IF "reminders" \in DOMAIN state
             THEN SetItem(state, "reminders", reminders) ELSE state,
           [reminders |-> Append(reminders, reminder)], <<>>)

\* Mutant of delete_reminder: an absent item is skipped and the call reports
\* success.
delete_reminder_silent(reminder, state) ==
  LET reminders == Get(state, "reminders", <<>>) IN
  IF reminder \notin Range(reminders)
    THEN Returned(state, EmptyDelta, <<>>)
    ELSE Returned(SetItem(state, "reminders", ListRemove(reminders, reminder)),
                  EmptyDelta, <<>>)

\* add_reminder: the list read from the state is appended to in place (a
\* missing key reads as a new list, which is not part of the state) and the
\* whole list is recorded as the delta for key "reminders".
add_reminder(reminder, state) ==
  LET reminders == Append(Get(state, "reminders", <<>>), reminder) IN
  Returned(IF "reminders" \in DOMAIN state
             THEN SetItem(state, "reminders", reminders) ELSE state,
           [reminders |-> reminders], <<>>)

\* view_reminders: returns the list, changes nothing.
view_reminders(state) ==
  Returned(state, EmptyDelta, Get(state, "reminders", <<>>))

\* delete_reminder: list.remove raises ValueError when the item is absent;
\* otherwise the first match is removed and the list is assigned to the
\* session state directly, with no delta recorded.
delete_reminder(reminder, state) ==
  LET reminders == Get(state, "reminders", <<>>) IN
  IF reminder \notin Range(reminders)
    THEN Raised("ValueError", state)
    ELSE Returned(SetItem(state, "reminders", ListRemove(reminders, reminder)),
                  EmptyDelta, <<>>)

\* update_reminder: reminders[reminder] = new_reminder indexes a list with
\* a str, which raises TypeError whatever the list holds.
update_reminder(reminder, new_reminder, state) ==
  Raised("TypeError", state)

\* update_user_name: assigns the key in the session state directly, with no
\* delta recorded.
update_user_name(user_name, state) ==
  Returned(SetItem(state, "user_name", user_name), EmptyDelta, <<>>)

\* ------------------------------------------------------------------- state

VARIABLES
  db,              \* the session service's stored sessions of (app, user)
  SESSION_ID,      \* main_async's session id (0: no process has chosen one)
  pc,              \* "off", "input", "display", "run", "awaitingModel"
  ended,           \* how the last process ended: "none", "normal", "crashed"
  user_input,      \* the line last read
  session,         \* the state of the Session object loaded for the turn
  final_response,  \* "none" or "text"
  turn_error,      \* the error raised while processing the current line
  last,            \* the latest tool call of the turn and its outcome
  recorded,        \* the latest recorded state delta and the add that made it
  renamed,         \* the name the latest update_user_name call was given
  count            \* lines read, process runs, turns, calls in the turn

vars == <<db, SESSION_ID, pc, ended, user_input, session, final_response,
          turn_error, last, recorded, renamed, count>>

NoSession == [k \in {} |-> 0]

\* No tool call yet.  A call is recorded with its arguments, the loaded and
\* the stored session state before it, its outcome, the loaded session state
\* after the runtime handled the outcome, and the call before it (its tool,
\* argument and the list it found).
NoCall ==
  [tool |-> "none", a1 |-> "", a2 |-> "", pre |-> NoSession,
   stored |-> NoSession, out |-> Raised("none", NoSession),
   post |-> NoSession, prev |-> [tool |-> "none", a1 |-> "", list |-> <<>>]]

NoDelta == [pre |-> <<>>, item |-> "", delta |-> EmptyDelta]

\* The stored state of the session main_async chose.
StoredState ==
  LET i == CHOOSE i \in 1..Len(db) : db[i].id = SESSION_ID IN db[i].state

\* The instruction template's {user_name} and {reminders}, resolved against
\* the loaded session's state when the model is queried.
Instruction ==
  [user_name |-> session["user_name"], reminders |-> session["reminders"]]

Init ==
  /\ db = <<>>
  /\ SESSION_ID = 0
  /\ pc = "off"
  /\ ended = "none"
  /\ user_input = <<>>
  /\ session = NoSession
  /\ final_response = "none"
  /\ turn_error = "none"
  /\ last = NoCall
  /\ recorded = NoDelta
  /\ renamed = "none"
  /\ count = [lines |-> 0, runs |-> 0, turns |-> 0, calls |-> 0]

\* ------------------------------------------------------- session lifecycle

\* create_session's fresh identifier.
NewId == Len(db) + 1

\* main_async up to the loop: list the sessions of (app, user); take the
\* first one's id when there is one, else create a session with
\* initial_state and take its id.
Start ==
  /\ pc = "off"
  /\ count.lines < MaxLines
  /\ IF Len(db) > 0
       THEN /\ SESSION_ID' = db[1].id
            /\ db' = db
       ELSE /\ db' = Append(db, [id |-> NewId, state |-> initial_state])
            /\ SESSION_ID' = NewId
  /\ pc' = "input"
  /\ ended' = "none"
  /\ count' = [count EXCEPT !.runs = @ + 1, !.turns = 0, !.calls = 0]
  /\ UNCHANGED <<user_input, session, final_response, turn_error, last,
                 recorded, renamed>>

\* ------------------------------------------------------------- read-eval loop

\* Mutant of IsExit: the line is compared as typed, without lower().
IsExit_as_typed(line) == line \in Keywords

\* user_input.lower() in ["exit", "quit", "bye"]
IsExit(line) == Lower(line) \in Keywords

\* One pass of the while loop up to the call: read a line; an exit keyword
\* breaks out of the loop and the process ends; any other line enters
\* call_agent_async, which sets final_response = None.
ReadLine(line) ==
  /\ pc = "input"
  /\ count.lines < MaxLines
  /\ user_input' = line
  /\ IF IsExit(line)
       THEN /\ pc' = "off"
            /\ ended' = "normal"
            /\ count' = [count EXCEPT !.lines = @ + 1]
            /\ turn_error' = "none"
            /\ UNCHANGED final_response
       ELSE /\ pc' = "display"
            /\ ended' = ended
            /\ final_response' = "none"
            /\ turn_error' = "none"
            /\ count' = [count EXCEPT !.lines = @ + 1, !.turns = @ + 1, !.calls = 0]
  /\ UNCHANGED <<db, SESSION_ID, session, last, recorded, renamed>>

\* display_state, awaited before the try block: when the lookup fails
\* (get_session raises, or returns no session and session.state raises) the
\* exception leaves call_agent_async and main_async, and the process ends.
DisplayState(found) ==
  /\ pc = "display"
  /\ IF found
       THEN /\ pc' = "run"
            /\ UNCHANGED <<ended, turn_error>>
       ELSE /\ pc' = "off"
            /\ ended' = "crashed"
            /\ turn_error' = "LookupError"
  /\ UNCHANGED <<db, SESSION_ID, user_input, session, final_response, last,
                 recorded, renamed, count>>

\* except Exception: the error is printed, call_agent_async returns and the
\* loop reads the next line.
Caught(error) ==
  /\ pc' = "input"
  /\ turn_error' = error
  /\ final_response' = "none"

\* runner.run_async(user_id, session_id, new_message) inside the try block:
\* the session is loaded from the session service by its id; a failed lookup
\* raises inside the try block.
RunStart(found) ==
  /\ pc = "run"
  /\ IF found
       THEN /\ session' = StoredState
            /\ pc' = "awaitingModel"
            /\ UNCHANGED <<turn_error, final_response>>
       ELSE /\ Caught("LookupError")
            /\ UNCHANGED session
  /\ UNCHANGED <<db, SESSION_ID, ended, user_input, last, recorded, renamed,
                 count>>

\* The model answers with the final response: process_agent_response returns
\* its text and the loop over the events ends.
ModelFinal ==
  /\ pc = "awaitingModel"
  /\ final_response' = "text"
  /\ pc' = "input"
  /\ UNCHANGED <<db, SESSION_ID, ended, user_input, session, turn_error, last,
                 recorded, renamed, count>>

\* The model call fails or times out: the exception is raised out of
\* run_async inside the try block.
ModelError ==
  /\ pc = "awaitingModel"
  /\ Caught("ModelError")
  /\ UNCHANGED <<db, SESSION_ID, ended, user_input, session, last, recorded,
                 renamed, count>>

\* The stored sessions after a state delta is merged into the chosen one.
Commit(delta) ==
  [i \in 1..Len(db) |->
     IF db[i].id = SESSION_ID
       THEN [db[i] EXCEPT !.state = Merge(@, delta)] ELSE db[i]]

\* The model requests a tool call and the runtime executes it.  When the tool
\* returns, its recorded delta is merged into the stored and the loaded
\* session and the result goes back to the model; when it raises, the
\* exception leaves run_async.
Dispatch(tool, a1, a2, out) ==
  /\ pc = "awaitingModel"
  /\ count.calls < MaxCalls
  /\ count' = [count EXCEPT !.calls = @ + 1]
  /\ IF out.kind = "returned"
       THEN /\ session' = Merge(out.state, out.state_delta)
            /\ db' = Commit(out.state_delta)
            /\ UNCHANGED <<pc, turn_error, final_response>>
       ELSE /\ session' = out.state
            /\ db' = db
            /\ Caught(out.error)
  /\ last' = [tool |-> tool, a1 |-> a1, a2 |-> a2, pre |-> session,
              stored |-> StoredState, out |-> out, post |-> session',
              prev |-> [tool |-> last.tool, a1 |-> last.a1,
                        list |-> Get(last.pre, "reminders", <<>>)]]
  /\ UNCHANGED <<SESSION_ID, ended, user_input>>

CallAdd(reminder) ==
  /\ Len(Get(session, "reminders", <<>>)) < MaxLen
  /\ Dispatch("add_reminder", reminder, "", add_reminder(reminder, session))
  /\ recorded' = [pre |-> Get(session, "reminders", <<>>), item |-> reminder,
                  delta |-> add_reminder(reminder, session).state_delta]
  /\ UNCHANGED renamed

CallView ==
  /\ Dispatch("view_reminders", "", "", view_reminders(session))
  /\ UNCHANGED <<recorded, renamed>>

CallDelete(reminder) ==
  /\ Dispatch("delete_reminder", reminder, "", delete_reminder(reminder, session))
  /\ UNCHANGED <<recorded, renamed>>

CallUpdate(reminder, new_reminder) ==
  /\ Dispatch("update_reminder", reminder, new_reminder,
              update_reminder(reminder, new_reminder, session))
  /\ UNCHANGED <<recorded, renamed>>

CallRename(user_name) ==
  /\ Dispatch("update_user_name", user_name, "", update_user_name(user_name, session))
  /\ renamed' = user_name
  /\ UNCHANGED recorded

Next ==
  \/ Start
  \/ \E line \in Lines : ReadLine(line)
  \/ \E found \in BOOLEAN : DisplayState(found)
  \/ \E found \in BOOLEAN : RunStart(found)
  \/ ModelFinal
  \/ ModelError
  \/ \E x \in Items : CallAdd(x)
  \/ CallView
  \/ \E x \in Items : CallDelete(x)
  \/ \E x \in Items, y \in Items : CallUpdate(x, y)
  \/ \E n \in Names : CallRename(n)

Spec == Init /\ [][Next]_vars

\* ------------------------------------------------------------------ claims

Reminders(state) == Get(state, "reminders", <<>>)

\* C1: delete_reminder(x) on a list L that does not hold x ends in a
\* not-found failure (list.remove's ValueError), never in a success, and the
\* session's reminders list, loaded and stored, is exactly L afterwards.
C1_DeleteAbsentFails ==
  (last.tool = "delete_reminder" /\ last.a1 \notin Range(Reminders(last.pre))) =>
    /\ last.out.kind = "raised"
    /\ last.out.error = "ValueError"
    /\ Reminders(last.post) = Reminders(last.pre)
    /\ Reminders(StoredState) = Reminders(last.stored)

C1_Witness ==
  /\ last.tool = "delete_reminder"
  /\ last.a1 \notin Range(Reminders(last.pre))
  /\ Len(Reminders(last.pre)) = 2
  /\ last.out.kind = "raised"

\* C2: a failed tool precondition (delete_reminder or update_reminder of a
\* reminder that is not in the list) comes back as the tool's structured
\* result and is not raised out of the tool: the turn is not aborted.
C2_FailureIsStructuredResult ==
  (/\ last.tool \in {"delete_reminder", "update_reminder"}
   /\ last.a1 \notin Range(Reminders(last.pre))) =>
    /\ last.out.kind = "returned"
    /\ turn_error \notin {"ValueError", "TypeError"}

\* C3: add_reminder(x) followed by delete_reminder(x) leaves the committed
\* reminders list equal to (L followed by x) with its first x removed.
C3_AddThenDeleteCommitted ==
  (/\ last.tool = "delete_reminder"
   /\ last.prev.tool = "add_reminder"
   /\ last.prev.a1 = last.a1) =>
    Reminders(StoredState) = ListRemove(Append(last.prev.list, last.a1), last.a1)

\* The list with its first element equal to old replaced by new.
ReplaceFirst(s, old, new) ==
  [i \in 1..Len(s) |-> IF i = IndexOf(s, old) THEN new ELSE s[i]]

\* C4: update_reminder(old, new) on a list that holds old succeeds and leaves
\* the list with its first old replaced by new, every other position as it was.
C4_UpdateReplacesFirst ==
  (last.tool = "update_reminder" /\ last.a1 \in Range(Reminders(last.pre))) =>
    /\ last.out.kind = "returned"
    /\ Reminders(last.post) = ReplaceFirst(Reminders(last.pre), last.a1, last.a2)

\* C5: add_reminder(x) succeeds and a following view_reminders() returns the
\* previous list with x appended last, in the same turn or in a later one
\* (which reads the stored state); view_reminders changes no state; on the
\* same state without its reminders key the add gives the one-element list; from
\* initial_state, add("buy milk") then view() returns ["buy milk"].
C5_AddThenView ==
  /\ last.tool = "add_reminder" =>
       /\ last.out.kind = "returned"
       /\ view_reminders(last.post).reminders = Append(Reminders(last.pre), last.a1)
       /\ view_reminders(StoredState).reminders = Append(Reminders(last.pre), last.a1)
  /\ (last.tool = "view_reminders" /\ last.prev.tool = "add_reminder") =>
       /\ last.out.kind = "returned"
       /\ last.out.reminders = Append(last.prev.list, last.prev.a1)
       /\ (last.prev.list = initial_state.reminders /\ last.prev.a1 = "buy milk")
            => last.out.reminders = <<"buy milk">>
  /\ last.tool = "view_reminders" =>
       /\ last.out.reminders = Reminders(last.pre)
       /\ last.post = last.pre
       /\ StoredState = last.stored
  /\ last.tool = "add_reminder" =>
       LET out == add_reminder(last.a1, [user_name |-> last.pre["user_name"]]) IN
         /\ out.kind = "returned"
         /\ view_reminders(Merge(out.state, out.state_delta)).reminders = <<last.a1>>

C5_Witness ==
  /\ last.tool = "view_reminders"
  /\ last.prev.tool = "add_reminder"
  /\ last.prev.list = <<>>
  /\ last.out.reminders = <<"buy milk">>
  /\ last.pre["user_name"] = "Afzal"

\* C6: after update_user_name(n), every later resolution of {user_name} in
\* the instruction gives n, in the same turn and in every later turn, until
\* another update_user_name call.
C6_RenameVisibleLater ==
  (renamed # "none" /\ pc = "awaitingModel") => Instruction.user_name = renamed

\* C7: every process run after the first finds exactly one stored session,
\* takes its id, and reads at its start the state the tools of the previous
\* run left.
C7_RestartRoundTrip ==
  (count.runs > 1 /\ pc = "input" /\ count.turns = 0) =>
    /\ Len(db) = 1
    /\ SESSION_ID = db[1].id
    /\ session # NoSession => StoredState = session

\* C8: an error raised while processing a line ends the turn with no final
\* response and the loop goes on to read the next line.
C8_ErrorsKeepLoopAlive ==
  turn_error # "none" =>
    /\ pc = "input"
    /\ ended = "none"
    /\ final_response = "none"

\* C9: the delta an add_reminder call recorded is applied once: it is the
\* list before the call with the one item appended, the stored list equals
\* it from then on (also when the turn errs later), merging it again
\* changes nothing, and the loaded list holds the item once.
C9_DeltaAppliedOnce ==
  /\ recorded.item # "" =>
       /\ recorded.delta.reminders = Append(recorded.pre, recorded.item)
       /\ Reminders(StoredState) = Append(recorded.pre, recorded.item)
       /\ Merge(StoredState, recorded.delta) = StoredState
  /\ last.tool = "add_reminder" =>
       /\ Reminders(last.post) = Append(Reminders(last.pre), last.a1)
       /\ Merge(last.post, last.out.state_delta) = last.post

C9_Witness ==
  /\ recorded.item # ""
  /\ last.prev.tool = "add_reminder"
  /\ last.out.kind = "raised"
  /\ count.calls = 2
  /\ pc = "input"
  /\ turn_error = "ValueError"
  /\ Len(Reminders(StoredState)) = 2

\* The lines whose lower-cased text is exactly exit, quit or bye.
ExitLines ==
  { <<"e","x","i","t">>, <<"E","X","I","T">>, <<"Q","u","i","t">>, <<"b","y","e">> }

\* C10: a line that is read ends the loop if and only if it is one of
\* ExitLines; such a line starts no turn and changes no session state; every
\* other line, the empty line and a keyword with surrounding whitespace
\* included, is forwarded as exactly one user turn; a turn starts only so.
C10_ExitKeywords ==
  [][ /\ count'.lines = count.lines + 1 =>
           /\ (pc' = "off" /\ ended' = "normal") <=> (user_input' \in ExitLines)
           /\ user_input' \in ExitLines =>
                /\ count'.turns = count.turns
                /\ db' = db
                /\ session' = session
           /\ user_input' \notin ExitLines =>
                /\ count'.turns = count.turns + 1
                /\ pc' = "display"
      /\ (count'.turns # count.turns /\ count'.runs = count.runs) =>
           /\ count'.lines = count.lines + 1
           /\ count'.turns = count.turns + 1
    ]_vars

C10_Witness ==
  /\ ended = "normal"
  /\ user_input = <<"E","X","I","T">>
  /\ count.turns = 1
  /\ pc = "off"

====
